---------------------------- MODULE Spec2Model ----------------------------
(***************************************************************************)
(* Nano Hairstyle Studio, frontend/src/App.jsx: the App component's state, *)
(* its event handlers, the prompt normalisation and the decoder of the     *)
(* newline-delimited JSON stream, as a state machine.                      *)
(*                                                                         *)
(* Text is a sequence of one-character strings.  The response body of the  *)
(* streaming endpoint is a sequence of bytes; a byte of an ASCII character *)
(* is written as that character, and the two bytes of the one non-ASCII    *)
(* character of the model are written "C3" and "A9".                       *)
(***************************************************************************)
EXTENDS Integers, Sequences, FiniteSets, TLC

VARIABLES
    gender,           \* useState('female')
    prompt,           \* useState(ensureFaceSuffix(PROMPTS.female[0]))
    count,            \* useState(1)
    imageFile,        \* useState(null): "none" or a file
    imagePreview,     \* useState(''): "" or the object URL of the file
    isLoading,        \* useState(false)
    statusMessage,    \* useState('')
    statusKind,       \* useState('idle')
    results,          \* useState([]): sequence of [index, imageSrc]
    isPromptPanelOpen,\* useState(false)
    cameraError,      \* useState('')
    isCameraActive,   \* useState(false)
    isCameraLoading,  \* useState(false)
    streamRef,        \* useRef(null): 0 or the id of a media stream
    liveTracks,       \* ids of the media streams whose tracks are not stopped
    streamsOpened,    \* number of media streams getUserMedia has given so far
    cameraCalls,      \* invocations of startCamera awaiting getUserMedia
    captures,         \* invocations of capturePhoto awaiting canvas.toBlob
    mounted,          \* whether the component is mounted
    reqs,             \* the invocations of handleSubmit that passed validation
    fnTrace           \* successive values of a text under ensureFaceSuffix

uiVars   == <<gender, prompt, count, imageFile, imagePreview, isLoading,
              statusMessage, statusKind, results, isPromptPanelOpen>>
camAsync == <<streamsOpened, cameraCalls, captures, mounted>>
camVars  == <<cameraError, isCameraActive, isCameraLoading, streamRef, liveTracks, camAsync>>
vars     == <<uiVars, camVars, reqs, fnTrace>>

---------------------------------------------------------------------------
(* Bounds of the model. *)

\* Inputs of the normalisation are concatenations of at most MaxParts pieces.
MaxParts == 4

\* A response body of the streaming endpoint has at most MaxLines lines.
MaxLines == 3

\* A chunk of a response body holds at most MaxChunk bytes, or all the bytes
\* that have not arrived yet.
MaxChunk == 3

\* At most MaxInFlight invocations of handleSubmit run at a time.
MaxInFlight == 2

\* The textarea holds at most MaxPromptLen characters when the user edits it.
MaxPromptLen == 45

\* Media streams opened in a behaviour, and capturePhoto calls awaiting toBlob.
MaxStreams == 2
MaxCaptures == 2

---------------------------------------------------------------------------
(* Text. *)

Chars(str) == [i \in 1..Len(str) |-> SubSeq(str, i, i)]

\* The white space String.prototype.trim removes, as far as the model's
\* alphabet has it.
WhiteSpace == {" ", "\n", "\r", "\t"}

RECURSIVE TrimStart(_)
TrimStart(s) ==
    IF s # <<>> /\ Head(s) \in WhiteSpace THEN TrimStart(Tail(s)) ELSE s

RECURSIVE TrimEnd(_)
TrimEnd(s) ==
    IF s # <<>> /\ s[Len(s)] \in WhiteSpace
    THEN TrimEnd(SubSeq(s, 1, Len(s) - 1))
    ELSE s

\* String.prototype.trim
Trim(s) == TrimEnd(TrimStart(s))

\* String.prototype.endsWith
EndsWith(s, suffix) ==
    /\ Len(suffix) <= Len(s)
    /\ SubSeq(s, Len(s) - Len(suffix) + 1, Len(s)) = suffix

\* Number of (possibly overlapping) occurrences of a non-empty text in s.
Occurrences(s, sub) ==
    Cardinality({i \in 1..(Len(s) - Len(sub) + 1) : SubSeq(s, i, i + Len(sub) - 1) = sub})

---------------------------------------------------------------------------
(* Program constants. *)

MAX_STREAM_COUNT == 6

FACE_SUFFIX == Chars(" keep my face same")

PROMPTS ==
    [female |-> << Chars("Create a modern textured bob with copper highlights"),
                   Chars("Transform into a sleek pixie cut with side-swept bangs"),
                   Chars("Long wavy layers with sun-kissed balayage"),
                   Chars("High-fashion editorial updo with bold volume") >>,
     male   |-> << Chars("Craft a clean skin fade with a textured quiff"),
                   Chars("Medium-length messy waves with natural highlights"),
                   Chars("Classic pompadour with a sharp undercut"),
                   Chars("Laid-back surfer cut with tousled texture") >>]

RECOMMEND_PROMPT ==
    Chars("you are an expert hairstylist, change my hairstyle based on my face, pls keep my face same")

---------------------------------------------------------------------------
(* Prompt normalisation. *)

\* A plausible slip: the suffix is appended without looking at the end of the text.
ensureFaceSuffixAlwaysAppends(text) ==
    LET trimmed == Trim(text)
    IN  IF trimmed = <<>> THEN <<>> ELSE trimmed \o FACE_SUFFIX

ensureFaceSuffix(text) ==
    LET trimmed == Trim(text)
    IN  IF trimmed = <<>>
        THEN <<>>
        ELSE IF EndsWith(trimmed, FACE_SUFFIX) THEN trimmed ELSE trimmed \o FACE_SUFFIX

---------------------------------------------------------------------------
(* The response body of /hairstyles/stream and its decoding to text. *)

Literal(str) == <<str>>

Last(s) == s[Len(s)]
Front(s) == SubSeq(s, 1, Len(s) - 1)

\* Index of the first c in s, 0 when there is none.
IndexOf(s, c) ==
    IF \E i \in 1..Len(s) : s[i] = c
    THEN CHOOSE i \in 1..Len(s) : s[i] = c /\ \A j \in 1..(i - 1) : s[j] # c
    ELSE 0

\* String.prototype.split with a one-character separator.
RECURSIVE SplitOn(_, _)
SplitOn(s, sep) ==
    LET at == IndexOf(s, sep)
    IN  IF at = 0
        THEN <<s>>
        ELSE <<SubSeq(s, 1, at - 1)>> \o SplitOn(SubSeq(s, at + 1, Len(s)), sep)

\* TextDecoder('utf-8').decode(value, {stream: true}): the bytes of one chunk after
\* the bytes the previous chunks left incomplete.  "C3" "A9" is the one two-byte
\* character; a lead byte without its continuation, or a continuation byte alone,
\* decodes to U+FFFD.  A lead byte at the end of the chunk is kept for the next one.
Utf8Decode(pending, bytes) ==
    LET all == pending \o bytes
        n == Len(all)
        \* the character that byte i yields, "" where it yields none
        at(i) ==
            IF all[i] = "C3"
            THEN IF i < n /\ all[i + 1] # "A9" THEN "U+FFFD" ELSE ""
            ELSE IF all[i] = "A9"
            THEN IF i > 1 /\ all[i - 1] = "C3" THEN "U+E9" ELSE "U+FFFD"
            ELSE all[i]
    IN  [text |-> SelectSeq([i \in 1..n |-> at(i)], LAMBDA c : c # ""),
         pending |-> IF n > 0 /\ all[n] = "C3" THEN <<"C3">> ELSE <<>>]

\* The decoding of a whole body at once (response.text()): an incomplete
\* character at the end decodes to U+FFFD.
Utf8DecodeAll(bytes) ==
    LET d == Utf8Decode(<<>>, bytes)
    IN  IF d.pending = <<>> THEN d.text ELSE d.text \o <<"U+FFFD">>

\* A plausible slip: decode(value) without {stream: true}, which ends the
\* character at the end of every chunk.
decodeChunkNoStream(pending, bytes) ==
    [text |-> Utf8DecodeAll(bytes), pending |-> <<>>]

\* decoder.decode(value, { stream: true })
decodeChunk(pending, bytes) == Utf8Decode(pending, bytes)

---------------------------------------------------------------------------
(* JSON.parse over the model's line syntax.                                *)
(*                                                                         *)
(*   {i12,bAB}   stands for {"index":12,"image_base64":"AB"}               *)
(*   {eq}        stands for {"error":"q"}                                  *)
(*   {iN,bA}     stands for {"index":null,"image_base64":"A"}              *)
(*   N, 12       stand for the JSON texts null and 12                      *)
(*   T, F, 'a', [], {}   after "i" stand for true, false, "a", [] and {}   *)
(*                                                                         *)
(* "i", "b" and "e" are the three keys with their colon; after "b" and "e" *)
(* every character up to the next "," or "}" is the content of the string. *)

Digits == {"0", "1", "2"}
DigitValue(c) == CASE c = "0" -> 0 [] c = "1" -> 1 [] c = "2" -> 2

RECURSIVE Decimal(_)
Decimal(ds) == IF ds = <<>> THEN 0 ELSE 10 * Decimal(Front(ds)) + DigitValue(Last(ds))

\* A JSON number of the model: digits, no leading zero.
IsNumberText(t) ==
    /\ t # <<>>
    /\ \A i \in 1..Len(t) : t[i] \in Digits
    /\ (Len(t) > 1 => t[1] # "0")

\* Values of JavaScript, as far as the payload has them.
Undefined == [t |-> "undefined", n |-> 0, s |-> <<>>]
Null      == [t |-> "null", n |-> 0, s |-> <<>>]
Num(k)    == [t |-> "number", n |-> k, s |-> <<>>]
Str(x)    == [t |-> "string", n |-> 0, s |-> x]
NaN       == [t |-> "NaN", n |-> 0, s |-> <<>>]
Bool(b)   == [t |-> "boolean", n |-> IF b THEN 1 ELSE 0, s |-> <<>>]
EmptyArray == [t |-> "array", n |-> 0, s |-> <<>>]
AnObject  == [t |-> "object", n |-> 0, s |-> <<>>]

\* ToBoolean
Truthy(v) ==
    CASE v.t = "number" -> v.n # 0
      [] v.t = "string" -> v.s # <<>>
      [] v.t = "boolean" -> v.n = 1
      [] v.t \in {"array", "object"} -> TRUE
      [] OTHER -> FALSE

\* Number(value): null is 0, true is 1 and false 0; a string is the number it
\* spells, 0 when it is empty or white space, and NaN otherwise; [] goes through
\* the empty string to 0; an object and undefined are NaN.
ToNumber(v) ==
    CASE v.t = "number" -> v
      [] v.t = "null" -> Num(0)
      [] v.t = "boolean" -> Num(v.n)
      [] v.t = "string" ->
            IF Trim(v.s) = <<>> THEN Num(0)
            ELSE IF IsNumberText(Trim(v.s)) THEN Num(Decimal(Trim(v.s)))
            ELSE NaN
      [] v.t = "array" -> Num(0)
      [] OTHER -> NaN

\* The characters a JSON string may not hold unescaped, and the ones the line
\* syntax gives another meaning.
StringForbidden == {"\n", "\r", "\t", "{", "}", ","}

\* The value a JSON text of the index stands for, Undefined when it is none.
JsonValue(t) ==
    IF IsNumberText(t) THEN Num(Decimal(t))
    ELSE IF t = <<"N">> THEN Null
    ELSE IF t = <<"T">> THEN Bool(TRUE)
    ELSE IF t = <<"F">> THEN Bool(FALSE)
    ELSE IF t = <<"[", "]">> THEN EmptyArray
    ELSE IF t = <<"{", "}">> THEN AnObject
    ELSE IF /\ Len(t) >= 2 /\ Head(t) = "'" /\ Last(t) = "'"
            /\ \A k \in 2..(Len(t) - 1) : t[k] \notin StringForbidden \cup {"'"}
         THEN Str(SubSeq(t, 2, Len(t) - 1))
    ELSE Undefined

SyntaxError == [ok |-> FALSE, kind |-> "none",
                error |-> Undefined, image_base64 |-> Undefined, index |-> Undefined]
EmptyObject == [ok |-> TRUE, kind |-> "object",
                error |-> Undefined, image_base64 |-> Undefined, index |-> Undefined]

\* One member of an object, added to the object read so far (a repeated key
\* takes the last value).
ParseMember(obj, field) ==
    LET f == TrimStart(field)
    IN  IF ~obj.ok \/ f = <<>> THEN SyntaxError
        ELSE LET key == Head(f)
                 val == Tail(f)
             IN  CASE key = "i" ->
                        IF JsonValue(Trim(val)).t = "undefined"
                        THEN SyntaxError
                        ELSE [obj EXCEPT !.index = JsonValue(Trim(val))]
                   [] key \in {"b", "e"} ->
                        IF \E k \in 1..Len(val) : val[k] \in StringForbidden
                        THEN SyntaxError
                        ELSE IF key = "b"
                             THEN [obj EXCEPT !.image_base64 = Str(val)]
                             ELSE [obj EXCEPT !.error = Str(val)]
                   [] OTHER -> SyntaxError

RECURSIVE ParseMembers(_, _)
ParseMembers(obj, fields) ==
    IF fields = <<>> THEN obj
    ELSE ParseMembers(ParseMember(obj, Head(fields)), Tail(fields))

JSONParse(line) ==
    LET t == Trim(line)
    IN  IF t = <<>> THEN SyntaxError
        ELSE IF t = <<"N">> THEN [EmptyObject EXCEPT !.kind = "null"]
        ELSE IF IsNumberText(t) THEN [EmptyObject EXCEPT !.kind = "number"]
        ELSE IF Head(t) # "{" \/ Last(t) # "}" \/ Len(t) < 2 THEN SyntaxError
        ELSE LET inner == SubSeq(t, 2, Len(t) - 1)
             IN  IF Trim(inner) = <<>> THEN EmptyObject
                 ELSE ParseMembers(EmptyObject, SplitOn(inner, ","))

---------------------------------------------------------------------------
(* fetchStreamResults: processLine and the loop over the lines of a chunk. *)

\* `data:image/png;base64,${base64Image}`; the fixed prefix is one element.
DataUrl(base64Image) == Literal("data:image/png;base64,") \o base64Image

Item(index, imageSrc) == [index |-> index, imageSrc |-> imageSrc]

Skip == [kind |-> "skip", index |-> 0, imageSrc |-> <<>>, message |-> <<>>]
Emit(index, imageSrc) == [Skip EXCEPT !.kind = "emit", !.index = index, !.imageSrc = imageSrc]
Throw(message) == [Skip EXCEPT !.kind = "throw", !.message = message]

\* A plausible slip: the conversion's result is used without the NaN check, and
\* an absent index, converted to NaN, is stored as 0.
safeIndexUnchecked(payloadIndex) == ToNumber(payloadIndex).n

safeIndex(payloadIndex) ==
    LET numericIndex == ToNumber(payloadIndex)
    IN  IF numericIndex.t = "NaN" THEN -1 ELSE numericIndex.n

\* A plausible slip: the error field is not looked at.
processLineIgnoringError(line) ==
    IF Trim(line) = <<>> THEN Skip
    ELSE LET payload == JSONParse(line)
         IN  IF ~payload.ok THEN Throw(Literal("SyntaxError"))
             ELSE IF payload.kind = "null" THEN Throw(Literal("TypeError"))
             ELSE IF ~Truthy(payload.image_base64) THEN Skip
             ELSE Emit(safeIndex(payload.index), DataUrl(payload.image_base64.s))

\* A plausible slip: a white-space-only line is handed to JSON.parse.
processLineParsingBlank(line) ==
    IF line = <<>> THEN Skip
    ELSE LET payload == JSONParse(line)
         IN  IF ~payload.ok THEN Throw(Literal("SyntaxError"))
             ELSE IF payload.kind = "null" THEN Throw(Literal("TypeError"))
             ELSE IF Truthy(payload.error) THEN Throw(payload.error.s)
             ELSE IF ~Truthy(payload.image_base64) THEN Skip
             ELSE Emit(safeIndex(payload.index), DataUrl(payload.image_base64.s))

\* What processLine does with one line: nothing, appendResult, or a throw.
processLine(line) ==
    IF Trim(line) = <<>> THEN Skip
    ELSE LET payload == JSONParse(line)
         IN  IF ~payload.ok THEN Throw(Literal("SyntaxError"))
             ELSE IF payload.kind = "null" THEN Throw(Literal("TypeError"))
             ELSE IF Truthy(payload.error) THEN Throw(payload.error.s)
             ELSE IF ~Truthy(payload.image_base64) THEN Skip
             ELSE Emit(safeIndex(payload.index), DataUrl(payload.image_base64.s))

\* The state the loop over lines works on: the React state it sets, whether a
\* line has thrown, and the lines handed to processLine so far.
LoopState(res, kind, message, processed) ==
    [results |-> res, statusKind |-> kind, statusMessage |-> message,
     thrown |-> FALSE, processed |-> processed]

\* A plausible slip: the catch of the loop clears the results.
applyLineRetracting(acc, line) ==
    LET r == processLine(line)
        seen == [acc EXCEPT !.processed = Append(@, line)]
    IN  CASE r.kind = "emit" ->
                [seen EXCEPT !.results = Append(@, Item(r.index, r.imageSrc)),
                             !.statusKind = "success",
                             !.statusMessage = Literal("Hairstyles are arriving...")]
          [] r.kind = "throw" ->
                [seen EXCEPT !.thrown = TRUE,
                             !.results = <<>>,
                             !.statusKind = "error",
                             !.statusMessage = r.message]
          [] OTHER -> seen

\* processLine(line) inside the try of the loop, and the catch's two setters.
applyLine(acc, line) ==
    LET r == processLine(line)
        seen == [acc EXCEPT !.processed = Append(@, line)]
    IN  CASE r.kind = "emit" ->
                [seen EXCEPT !.results = Append(@, Item(r.index, r.imageSrc)),
                             !.statusKind = "success",
                             !.statusMessage = Literal("Hairstyles are arriving...")]
          [] r.kind = "throw" ->
                [seen EXCEPT !.thrown = TRUE,
                             !.statusKind = "error",
                             !.statusMessage = r.message]
          [] OTHER -> seen

\* A plausible slip: the loop goes on after a line has thrown.
RECURSIVE processLinesPastThrow(_, _)
processLinesPastThrow(lines, acc) ==
    IF lines = <<>>
    THEN acc
    ELSE processLinesPastThrow(Tail(lines), applyLine(acc, Head(lines)))

\* for (const line of lines) { try { processLine(line) } catch { ...; throw } }
RECURSIVE processLines(_, _)
processLines(lines, acc) ==
    IF lines = <<>> \/ acc.thrown
    THEN acc
    ELSE processLines(Tail(lines), applyLine(acc, Head(lines)))

\* One pass of the read loop over a decoded chunk: the new bufferedText and the
\* state after the complete lines.
\* A plausible slip: the last fragment is processed with the complete lines
\* instead of being held back.
chunkStepNoHoldBack(bufferedText, text, acc) ==
    LET lines == SplitOn(bufferedText \o text, "\n")
    IN  [bufferedText |-> <<>>,
         acc |-> processLines(IF Last(lines) = <<>> THEN Front(lines) ELSE lines, acc)]

\* A plausible slip: the text is only collected while the stream is read, and
\* left to the end of the stream.
chunkStepDeferring(bufferedText, text, acc) ==
    [bufferedText |-> bufferedText \o text, acc |-> acc]

chunkStep(bufferedText, text, acc) ==
    LET lines == SplitOn(bufferedText \o text, "\n")
    IN  [bufferedText |-> Last(lines), acc |-> processLines(Front(lines), acc)]

\* After the loop: the held-back fragment, when it is not blank, is one more line.
\* A plausible slip: the fragment left at the end of the stream is dropped.
flushStepDropping(bufferedText, acc) == acc

flushStep(bufferedText, acc) ==
    IF Trim(bufferedText) # <<>> THEN applyLine(acc, bufferedText) ELSE acc

---------------------------------------------------------------------------
(* An invocation of handleSubmit that has dispatched its request: the      *)
(* request, the response as far as it has arrived, and the local variables *)
(* of fetchSingleResult or fetchStreamResults.                             *)

\* lines and terminated are the response body as the service wrote it, wire the
\* bytes of it not yet read, eos whether the end of the stream has been read,
\* processed the lines handed to processLine, heldFragment whether some chunk
\* ended inside a line.
\* pc: "fetch"  awaiting fetch(...)
\*     "text"   awaiting response.text() of a non-2xx response
\*     "blob"   awaiting response.blob()
\*     "read"   awaiting reader.read()
\*     "done"   handleSubmit has returned
NewRequest(endpoint, promptField, countField, image) ==
    [pc |-> "fetch", endpoint |-> endpoint,
     prompt |-> promptField, count |-> countField, image |-> image,
     status |-> 0, lines |-> <<>>, terminated |-> TRUE,
     wire |-> <<>>, eos |-> FALSE,
     pending |-> <<>>, bufferedText |-> <<>>, processed |-> <<>>,
     heldFragment |-> FALSE, outcome |-> "pending"]

\* A plausible slip: the check of response.ok is missing.
ResponseOkUnchecked(status) == TRUE

\* response.ok
ResponseOk(status) == status \in 200..299

\* URL.createObjectURL(blob) of the response of request i.
ObjectUrl(i) == <<"blob:", ToString(i)>>

Returned(r, outcome) == [r EXCEPT !.pc = "done", !.outcome = outcome]

\* A plausible slip: setIsLoading(false) stands at the end of the try block
\* instead of in finally.
CaughtWithoutFinally(i, r, message) ==
    /\ statusKind' = "error"
    /\ statusMessage' = message
    /\ isLoading' = isLoading
    /\ reqs' = [reqs EXCEPT ![i] = Returned(r, "error")]

\* handleSubmit's catch and finally.
Caught(i, r, message) ==
    /\ statusKind' = "error"
    /\ statusMessage' = message
    /\ isLoading' = FALSE
    /\ reqs' = [reqs EXCEPT ![i] = Returned(r, "error")]

\* fetch(...) rejects.
FetchRejects(i) ==
    /\ reqs[i].pc = "fetch"
    /\ Caught(i, reqs[i], Literal("Failed to fetch"))
    /\ UNCHANGED <<gender, prompt, count, imageFile, imagePreview, results,
                   isPromptPanelOpen, camVars, fnTrace>>

\* fetch(...) resolves with a response whose body is `body`.
FetchResponds(i, status, hasBody, lines, terminated, body) ==
    LET r == [reqs[i] EXCEPT !.status = status, !.lines = lines,
                             !.terminated = terminated, !.wire = body]
    IN  /\ reqs[i].pc = "fetch"
        /\ IF ~ResponseOk(status)
           THEN /\ reqs' = [reqs EXCEPT ![i] = [r EXCEPT !.pc = "text"]]
                /\ UNCHANGED <<statusKind, statusMessage, isLoading>>
           ELSE IF r.endpoint = "/hairstyle"
           THEN /\ reqs' = [reqs EXCEPT ![i] = [r EXCEPT !.pc = "blob"]]
                /\ UNCHANGED <<statusKind, statusMessage, isLoading>>
           ELSE IF ~hasBody
           THEN Caught(i, r, Literal("Streaming is not supported in this browser."))
           ELSE /\ reqs' = [reqs EXCEPT ![i] = [r EXCEPT !.pc = "read"]]
                /\ UNCHANGED <<statusKind, statusMessage, isLoading>>
        /\ UNCHANGED <<gender, prompt, count, imageFile, imagePreview, results,
                       isPromptPanelOpen, camVars, fnTrace>>

\* response.text() resolves: throw new Error(errorText || `Request failed ...`).
TextResolves(i) ==
    LET errorText == Utf8DecodeAll(reqs[i].wire)
    IN  /\ reqs[i].pc = "text"
        /\ Caught(i, [reqs[i] EXCEPT !.wire = <<>>],
                  IF errorText # <<>>
                  THEN errorText
                  ELSE Literal("Request failed with status " \o ToString(reqs[i].status)))
        /\ UNCHANGED <<gender, prompt, count, imageFile, imagePreview, results,
                       isPromptPanelOpen, camVars, fnTrace>>

\* response.blob() resolves: the rest of fetchSingleResult, then finally.
BlobResolves(i) ==
    /\ reqs[i].pc = "blob"
    /\ results' = Append(results, Item(0, ObjectUrl(i)))
    /\ statusMessage' = Literal("New hairstyle generated!")
    /\ statusKind' = "success"
    /\ isLoading' = FALSE
    /\ reqs' = [reqs EXCEPT ![i] = Returned([@ EXCEPT !.wire = <<>>], "success")]
    /\ UNCHANGED <<gender, prompt, count, imageFile, imagePreview,
                   isPromptPanelOpen, camVars, fnTrace>>

\* The sizes the next chunk of a body may have, n bytes of it being left.
ChunkSizes(n) == {k \in 0..n : k <= MaxChunk \/ k = n}

\* reader.read() resolves with the next n bytes of the body: one pass of the loop.
ReadChunk(i, n) ==
    LET r    == reqs[i]
        d    == decodeChunk(r.pending, SubSeq(r.wire, 1, n))
        step == chunkStep(r.bufferedText, d.text,
                          LoopState(results, statusKind, statusMessage, r.processed))
        rr   == [r EXCEPT !.wire = SubSeq(r.wire, n + 1, Len(r.wire)),
                          !.pending = d.pending,
                          !.bufferedText = step.bufferedText,
                          !.processed = step.acc.processed,
                          !.heldFragment = @ \/ step.bufferedText # <<>>]
    IN  /\ r.pc = "read"
        /\ n \in 0..Len(r.wire)
        /\ results' = step.acc.results
        /\ IF step.acc.thrown
           THEN Caught(i, rr, step.acc.statusMessage)
           ELSE /\ statusKind' = step.acc.statusKind
                /\ statusMessage' = step.acc.statusMessage
                /\ reqs' = [reqs EXCEPT ![i] = rr]
                /\ UNCHANGED isLoading
        /\ UNCHANGED <<gender, prompt, count, imageFile, imagePreview,
                       isPromptPanelOpen, camVars, fnTrace>>

\* reader.read() resolves with done: the flush, the success status, finally.
ReadDone(i) ==
    LET r   == reqs[i]
        acc == flushStep(r.bufferedText,
                         LoopState(results, statusKind, statusMessage, r.processed))
        rr  == [r EXCEPT !.eos = TRUE, !.processed = acc.processed]
    IN  /\ r.pc = "read"
        /\ r.wire = <<>>
        /\ results' = acc.results
        /\ IF acc.thrown
           THEN Caught(i, rr, acc.statusMessage)
           ELSE /\ statusMessage' = Literal("All hairstyles generated!")
                /\ statusKind' = "success"
                /\ isLoading' = FALSE
                /\ reqs' = [reqs EXCEPT ![i] = Returned(rr, "success")]
        /\ UNCHANGED <<gender, prompt, count, imageFile, imagePreview,
                       isPromptPanelOpen, camVars, fnTrace>>

\* The connection breaks while the body is read: response.text(), response.blob()
\* or reader.read() rejects.
BodyFails(i) ==
    /\ reqs[i].pc \in {"text", "blob", "read"}
    /\ Caught(i, reqs[i], Literal("network error"))
    /\ UNCHANGED <<gender, prompt, count, imageFile, imagePreview, results,
                   isPromptPanelOpen, camVars, fnTrace>>

---------------------------------------------------------------------------
(* The remote service's side of the wire: the lines it writes.             *)

ImageLine(index, base64) == [kind |-> "image", index |-> index, text |-> base64]
ErrorLine(message)       == [kind |-> "error", index |-> 0, text |-> message]
RawLine(text)            == [kind |-> "raw", index |-> 0, text |-> text]

RECURSIVE Utf8Encode(_)
Utf8Encode(text) ==
    IF text = <<>> THEN <<>>
    ELSE (IF Head(text) = "U+E9" THEN <<"C3", "A9">> ELSE <<Head(text)>>)
         \o Utf8Encode(Tail(text))

LineText(l) ==
    CASE l.kind = "image" ->
            <<"{", "i">> \o Chars(ToString(l.index)) \o <<",", "b">> \o l.text \o <<"}">>
      [] l.kind = "error" -> <<"{", "e">> \o l.text \o <<"}">>
      [] OTHER -> l.text

\* The body: every line followed by a newline, the last one only when the body
\* is terminated.
RECURSIVE Body(_, _)
Body(lines, terminated) ==
    IF lines = <<>> THEN <<>>
    ELSE Utf8Encode(LineText(Head(lines)))
         \o (IF Len(lines) > 1 \/ terminated THEN <<"\n">> ELSE <<>>)
         \o Body(Tail(lines), terminated)

SeqsUpTo(S, n) == UNION {[1..k -> S] : k \in 0..n}

\* The lines the bodies of the decoder's specification are made of.
DecoderLines ==
    { ImageLine(1, <<"B">>), ImageLine(0, <<"A">>), ImageLine(12, <<"A", "U+E9">>),
      ErrorLine(<<"q">>), ErrorLine(<<>>), RawLine(<<>>), RawLine(<<" ">>) }

---------------------------------------------------------------------------
(* Initial state of the component. *)

Files == {"portrait.png"}

InitApp ==
    /\ gender = "female"
    /\ prompt = ensureFaceSuffix(PROMPTS.female[1])
    /\ count = 1
    /\ imageFile = "none"
    /\ imagePreview = ""
    /\ isLoading = FALSE
    /\ statusMessage = <<>>
    /\ statusKind = "idle"
    /\ results = <<>>
    /\ isPromptPanelOpen = FALSE
    /\ cameraError = <<>>
    /\ isCameraActive = FALSE
    /\ isCameraLoading = FALSE
    /\ streamRef = 0
    /\ liveTracks = {}
    /\ streamsOpened = 0
    /\ cameraCalls = 0
    /\ captures = 0
    /\ mounted = TRUE
    /\ reqs = <<>>
    /\ fnTrace = <<>>

---------------------------------------------------------------------------
(* The decoder alone: a streaming request has been dispatched (a portrait  *)
(* chosen, count set to 3, the form submitted); the service answers 200    *)
(* with any body of DecoderLines, and the body arrives whole, cut into     *)
(* chunks at any places.                                                   *)

InitDecoder ==
    /\ gender = "female"
    /\ prompt = ensureFaceSuffix(Chars("bob cut"))
    /\ count = 3
    /\ imageFile = "portrait.png"
    /\ imagePreview = "blob:portrait.png"
    /\ isLoading = TRUE
    /\ statusMessage = Literal("Contacting the service...")
    /\ statusKind = "info"
    /\ results = <<>>
    /\ isPromptPanelOpen = FALSE
    /\ cameraError = <<>>
    /\ isCameraActive = FALSE
    /\ isCameraLoading = FALSE
    /\ streamRef = 0
    /\ liveTracks = {}
    /\ streamsOpened = 0
    /\ cameraCalls = 0
    /\ captures = 0
    /\ mounted = TRUE
    /\ reqs = << NewRequest("/hairstyles/stream", prompt, ToString(3), "portrait.png") >>
    /\ fnTrace = <<>>

StreamArrives ==
    /\ reqs[1].pc = "fetch"
    /\ \E lines \in SeqsUpTo(DecoderLines, MaxLines), terminated \in BOOLEAN :
        /\ (lines = <<>> => terminated)
        /\ FetchResponds(1, 200, TRUE, lines, terminated, Body(lines, terminated))

ChunkArrives == \E n \in ChunkSizes(Len(reqs[1].wire)) : ReadChunk(1, n)

StreamEnds == ReadDone(1)

NextDecoder == StreamArrives \/ ChunkArrives \/ StreamEnds

SpecDecoder == InitDecoder /\ [][NextDecoder]_vars

---------------------------------------------------------------------------
(* The decoder on records outside the service's format: a record with any  *)
(* JSON value as index or with no index, alone in the body; and bodies of  *)
(* records without image, JSON texts that are no object, and lines that    *)
(* are not JSON.                                                           *)

\* The index of a record as JSON text, and the absent index.
IndexTexts ==
    { <<"N">>, <<"T">>, <<"F">>, <<"'", "'">>, <<"'", "a", "'">>, <<"[", "]">>,
      <<"{", "}">>, <<"0">>, <<"1">>, <<"1", "2">> }

IndexedLine(indexText) == RawLine(<<"{", "i">> \o indexText \o <<",", "b", "A", "}">>)
UnindexedLine == RawLine(<<"{", "b", "A", "}">>)

NoImageTexts == { <<"{", "}">>, <<"{", "i", "1", "}">>, <<"1", "2">>, <<"N">> }
NotJsonTexts == { <<"x">>, <<"{", "b", "A">> }

FaultLines ==
    {ImageLine(0, <<"A">>), ImageLine(1, <<"B">>)}
        \cup {RawLine(t) : t \in NoImageTexts \cup NotJsonTexts}

RecordBodies ==
    SeqsUpTo(FaultLines, MaxLines)
        \cup {<<IndexedLine(t)>> : t \in IndexTexts} \cup {<<UnindexedLine>>}

RecordsArrive ==
    /\ reqs[1].pc = "fetch"
    /\ \E lines \in RecordBodies, terminated \in BOOLEAN :
        /\ (lines = <<>> => terminated)
        /\ FetchResponds(1, 200, TRUE, lines, terminated, Body(lines, terminated))

NextRecords == RecordsArrive \/ ChunkArrives \/ StreamEnds

SpecRecords == InitDecoder /\ [][NextRecords]_vars

---------------------------------------------------------------------------
(* The event handlers of the component. *)

netFrame == <<reqs, fnTrace>>

\* A plausible slip: the ref is cleared and the tracks are left running.
stopTracksForgetting ==
    /\ liveTracks' = liveTracks
    /\ streamRef' = 0

\* if (streamRef.current) { getTracks().forEach(stop); streamRef.current = null }
stopTracks ==
    /\ liveTracks' = liveTracks \ {streamRef}
    /\ streamRef' = 0

\* stopCamera's effect on the stream, the ref and isCameraActive.
stopCamera ==
    /\ stopTracks
    /\ isCameraActive' = FALSE

resetInterface ==
    /\ results' = <<>>
    /\ statusMessage' = <<>>
    /\ statusKind' = "idle"

\* onChange of the file input; file = "none" when the selection is empty.
handleFileChange(file) ==
    /\ IF file = "none"
       THEN /\ imageFile' = "none"
            /\ imagePreview' = ""
            /\ resetInterface
            /\ UNCHANGED <<streamRef, liveTracks, isCameraActive>>
       ELSE /\ imageFile' = file
            /\ imagePreview' = "blob:" \o file
            /\ resetInterface
            /\ stopCamera
    /\ UNCHANGED <<gender, prompt, count, isLoading, isPromptPanelOpen,
                   cameraError, isCameraLoading, camAsync, netFrame>>

\* "Remove image", rendered while there is a preview.
handleClearImage ==
    /\ imagePreview # ""
    /\ imageFile' = "none"
    /\ imagePreview' = ""
    /\ resetInterface
    /\ UNCHANGED <<gender, prompt, count, isLoading, isPromptPanelOpen, camVars, netFrame>>

\* "Clear board".
ClearBoard ==
    /\ resetInterface
    /\ UNCHANGED <<gender, prompt, count, imageFile, imagePreview, isLoading,
                   isPromptPanelOpen, camVars, netFrame>>

togglePromptPanel ==
    /\ isPromptPanelOpen' = ~isPromptPanelOpen
    /\ UNCHANGED <<gender, prompt, count, imageFile, imagePreview, isLoading,
                   statusMessage, statusKind, results, camVars, netFrame>>

promptFrame == <<count, imageFile, imagePreview, isLoading, statusMessage, statusKind,
                 results, isPromptPanelOpen, camVars, netFrame>>

\* The gender toggle of the prompt panel.
handleGenderChange(nextGender) ==
    /\ isPromptPanelOpen
    /\ gender' = nextGender
    /\ prompt' = ensureFaceSuffix(PROMPTS[nextGender][1])
    /\ UNCHANGED promptFrame

\* A chip of the prompt library, which shows PROMPTS[gender].
handleUsePrompt(value) ==
    /\ prompt' = ensureFaceSuffix(value)
    /\ UNCHANGED <<gender, promptFrame>>

LibraryChip(k) ==
    /\ isPromptPanelOpen
    /\ handleUsePrompt(PROMPTS[gender][k])

\* "Recommend me".
handleRecommendPrompt == handleUsePrompt(RECOMMEND_PROMPT)

\* A plausible slip: the textarea's content is stored as typed.
handlePromptChangeRaw(value) ==
    /\ prompt' = value
    /\ UNCHANGED <<gender, promptFrame>>

\* onChange of the textarea; value is its new content.
handlePromptChange(value) ==
    /\ prompt' = ensureFaceSuffix(value)
    /\ UNCHANGED <<gender, promptFrame>>

\* onChange of the Variations input: setCount(Number(event.target.value)).
setCount(n) ==
    /\ count' = n
    /\ UNCHANGED <<gender, prompt, imageFile, imagePreview, isLoading, statusMessage,
                   statusKind, results, isPromptPanelOpen, camVars, netFrame>>

\* A plausible slip: the comparison never holds (count compared with '1').
endpointNeverSingle(n) == "/hairstyles/stream"

\* if (count === 1) fetchSingleResult else fetchStreamResults
endpointFor(n) == IF n = 1 THEN "/hairstyle" ELSE "/hairstyles/stream"

Running(r) == r.pc # "done"

\* A plausible slip: the check of the prompt is missing.
submitBlockedNoPromptCheck == imageFile = "none"

\* The two validations of handleSubmit.
submitBlocked == imageFile = "none" \/ Trim(prompt) = <<>>

\* onSubmit of the form.  The invocations that have returned are forgotten when
\* a new one starts.
handleSubmit ==
    /\ IF submitBlocked
       THEN /\ statusKind' = "warning"
            /\ statusMessage' = IF imageFile = "none"
                                THEN Literal("Please choose an image first.")
                                ELSE Literal("Please fill the prompt field.")
            /\ UNCHANGED <<isLoading, results, reqs>>
       ELSE /\ Len(SelectSeq(reqs, Running)) < MaxInFlight
            /\ reqs' = Append(SelectSeq(reqs, Running),
                              NewRequest(endpointFor(count), ensureFaceSuffix(prompt),
                                         ToString(count), imageFile))
            /\ isLoading' = TRUE
            /\ statusKind' = "info"
            /\ statusMessage' = Literal("Contacting the service...")
            /\ results' = <<>>
    /\ UNCHANGED <<gender, prompt, count, imageFile, imagePreview, isPromptPanelOpen,
                   camVars, fnTrace>>

\* A plausible slip: the button is not disabled while a request is running.
submitDisabledOnlyWithoutImage == imageFile = "none"

\* disabled={isLoading || !imageFile}
submitDisabled == isLoading \/ imageFile = "none"

\* A plausible slip: the Variations input has no min and max.
formValidUnconstrained == TRUE

\* A plausible slip: the Variations input has a min and no max.
formValidWithoutMax == count >= 1

\* The form's constraint validation, which the browser runs before it fires the
\* submit event: <input type="number" min={1} max={MAX_STREAM_COUNT} value={count}>.
formValid == count \in 1..MAX_STREAM_COUNT

\* The submit button.
SubmitButton == ~submitDisabled /\ formValid /\ handleSubmit

\* const orderedResults = [...results].sort((a, b) => a.index - b.index):
\* a stable sort, as an insertion of each item behind the items not above it.
\* A plausible slip: the comparator is written the other way round.
insertByIndexDescending(sorted, item) ==
    LET k == Cardinality({j \in 1..Len(sorted) : sorted[j].index >= item.index})
    IN  SubSeq(sorted, 1, k) \o <<item>> \o SubSeq(sorted, k + 1, Len(sorted))

insertByIndex(sorted, item) ==
    LET k == Cardinality({j \in 1..Len(sorted) : sorted[j].index <= item.index})
    IN  SubSeq(sorted, 1, k) \o <<item>> \o SubSeq(sorted, k + 1, Len(sorted))

RECURSIVE sortByIndex(_)
sortByIndex(items) ==
    IF items = <<>> THEN <<>>
    ELSE insertByIndex(sortByIndex(Front(items)), Last(items))

orderedResults == sortByIndex(results)

---------------------------------------------------------------------------
(* The camera. *)

camFrame == <<gender, prompt, count, isLoading, isPromptPanelOpen, netFrame>>

\* startCamera up to its await.
startCamera ==
    /\ cameraCalls < MaxStreams
    /\ stopTracks
    /\ cameraError' = <<>>
    /\ isCameraLoading' = TRUE
    /\ isCameraActive' = TRUE
    /\ cameraCalls' = cameraCalls + 1
    /\ UNCHANGED <<imageFile, imagePreview, statusMessage, statusKind, results,
                   streamsOpened, captures, mounted, camFrame>>

\* getUserMedia resolves: streamRef.current = stream, then finally.
getUserMediaResolves ==
    /\ cameraCalls > 0
    /\ streamsOpened < MaxStreams
    /\ streamsOpened' = streamsOpened + 1
    /\ streamRef' = streamsOpened + 1
    /\ liveTracks' = liveTracks \cup {streamsOpened + 1}
    /\ isCameraLoading' = FALSE
    /\ cameraCalls' = cameraCalls - 1
    /\ UNCHANGED <<imageFile, imagePreview, statusMessage, statusKind, results,
                   cameraError, isCameraActive, captures, mounted, camFrame>>

\* getUserMedia rejects: catch, then finally.
getUserMediaRejects ==
    /\ cameraCalls > 0
    /\ cameraError' = Literal("Camera access was denied. Please allow camera permissions.")
    /\ isCameraActive' = FALSE
    /\ isCameraLoading' = FALSE
    /\ cameraCalls' = cameraCalls - 1
    /\ UNCHANGED <<imageFile, imagePreview, statusMessage, statusKind, results,
                   streamRef, liveTracks, streamsOpened, captures, mounted, camFrame>>

\* The camera button: onClick={isCameraActive ? stopCamera : startCamera},
\* disabled={isCameraLoading}.
OpenCamera == mounted /\ ~isCameraLoading /\ ~isCameraActive /\ startCamera

CloseCamera ==
    /\ mounted /\ ~isCameraLoading /\ isCameraActive
    /\ stopCamera
    /\ UNCHANGED <<imageFile, imagePreview, statusMessage, statusKind, results,
                   cameraError, isCameraLoading, camAsync, camFrame>>

\* capturePhoto up to canvas.toBlob; the video element is rendered while
\* isCameraActive.
capturePhoto ==
    /\ isCameraActive
    /\ captures < MaxCaptures
    /\ captures' = captures + 1
    /\ UNCHANGED <<uiVars, cameraError, isCameraActive, isCameraLoading, streamRef,
                   liveTracks, streamsOpened, cameraCalls, mounted, netFrame>>

CaptureButton == mounted /\ capturePhoto

\* The callback of toBlob with a blob.
toBlobDelivers ==
    /\ captures > 0
    /\ captures' = captures - 1
    /\ stopCamera
    /\ imageFile' = "camera-capture.png"
    /\ imagePreview' = "blob:camera-capture.png"
    /\ resetInterface
    /\ UNCHANGED <<cameraError, isCameraLoading, streamsOpened, cameraCalls, mounted,
                   camFrame>>

\* The callback of toBlob with null.
toBlobFails ==
    /\ captures > 0
    /\ captures' = captures - 1
    /\ cameraError' = Literal("Could not capture photo. Try again.")
    /\ UNCHANGED <<uiVars, isCameraActive, isCameraLoading, streamRef, liveTracks,
                   streamsOpened, cameraCalls, mounted, netFrame>>

\* The cleanup of useEffect(() => () => stopCamera(), []).
Unmount ==
    /\ mounted
    /\ mounted' = FALSE
    /\ stopCamera
    /\ UNCHANGED <<imageFile, imagePreview, statusMessage, statusKind, results,
                   cameraError, isCameraLoading, streamsOpened, cameraCalls, captures,
                   camFrame>>

FilePicked == mounted /\ \E file \in Files \cup {"none"} : handleFileChange(file)

ImageRemoved == mounted /\ handleClearImage

NextCamera ==
    \/ OpenCamera
    \/ CloseCamera
    \/ getUserMediaResolves
    \/ getUserMediaRejects
    \/ CaptureButton
    \/ toBlobDelivers
    \/ toBlobFails
    \/ FilePicked
    \/ ImageRemoved
    \/ Unmount

SpecCamera == InitApp /\ [][NextCamera]_vars

---------------------------------------------------------------------------
(* The normalisation alone: ensureFaceSuffix applied again and again to a  *)
(* text made of at most MaxParts pieces.                                   *)

\* The clause of the suffix, without the space before it.
FaceClause == Tail(FACE_SUFFIX)

NormalisationPieces == { <<"a">>, <<" ">>, <<"\n">>, FACE_SUFFIX, FaceClause }

RECURSIVE Flatten(_)
Flatten(parts) == IF parts = <<>> THEN <<>> ELSE Head(parts) \o Flatten(Tail(parts))

TextInputs == {Flatten(parts) : parts \in SeqsUpTo(NormalisationPieces, MaxParts)}

InitSuffix ==
    /\ gender = "female"
    /\ prompt = ensureFaceSuffix(PROMPTS.female[1])
    /\ count = 1
    /\ imageFile = "none"
    /\ imagePreview = ""
    /\ isLoading = FALSE
    /\ statusMessage = <<>>
    /\ statusKind = "idle"
    /\ results = <<>>
    /\ isPromptPanelOpen = FALSE
    /\ cameraError = <<>>
    /\ isCameraActive = FALSE
    /\ isCameraLoading = FALSE
    /\ streamRef = 0
    /\ liveTracks = {}
    /\ streamsOpened = 0
    /\ cameraCalls = 0
    /\ captures = 0
    /\ mounted = TRUE
    /\ reqs = <<>>
    /\ fnTrace \in {<<text>> : text \in TextInputs}

Normalise ==
    /\ Len(fnTrace) < 3
    /\ fnTrace' = Append(fnTrace, ensureFaceSuffix(Last(fnTrace)))
    /\ UNCHANGED <<uiVars, camVars, reqs>>

SpecSuffix == InitSuffix /\ [][Normalise]_vars

---------------------------------------------------------------------------
(* The prompt: every way the component sets it, and the requests that      *)
(* carry it.  The count stays 1 and the service answers with an image or   *)
(* not at all.                                                             *)

TypedChars == {"x"}
TypedTexts == { <<>>, Chars("bob cut"), FaceClause }

\* The contents the textarea can get from one edit of the displayed prompt: a
\* character typed behind it, the last character deleted, or all of it replaced.
Edits(shown) ==
    { v \in {shown \o <<c>> : c \in TypedChars}
            \cup (IF shown = <<>> THEN {} ELSE {Front(shown)})
            \cup TypedTexts :
        Len(v) <= MaxPromptLen }

PortraitChosen == \E file \in Files : handleFileChange(file)

GenderToggled == \E g \in {"female", "male"} : handleGenderChange(g)

LibraryChipClicked == \E k \in 1..4 : LibraryChip(k)

TextEdited == \E v \in Edits(prompt) : handlePromptChange(v)

ImageArrives ==
    \E i \in DOMAIN reqs :
        /\ reqs[i].endpoint = "/hairstyle"
        /\ FetchResponds(i, 200, TRUE, <<>>, TRUE, <<>>)

BlobRead == \E i \in DOMAIN reqs : BlobResolves(i)

ServiceUnreachable == \E i \in DOMAIN reqs : FetchRejects(i)

NextPrompt ==
    \/ PortraitChosen
    \/ togglePromptPanel
    \/ GenderToggled
    \/ LibraryChipClicked
    \/ handleRecommendPrompt
    \/ TextEdited
    \/ SubmitButton
    \/ ImageArrives
    \/ BlobRead
    \/ ServiceUnreachable

SpecPrompt == InitApp /\ [][NextPrompt]_vars

---------------------------------------------------------------------------
(* The component: portrait, count, prompt, submission, and the service's   *)
(* answers to both endpoints.                                              *)

\* What Number(event.target.value) gives for the texts a number input can hold:
\* 0 for the empty input, and the integer typed.
CountInputs == {-1, 0, 1, 3, 6, 7}

AppTexts == { <<>>, Chars("bob cut") }

\* The answers of the service: [status, hasBody, lines, terminated].
Answer(status, hasBody, lines, terminated) ==
    [status |-> status, hasBody |-> hasBody, lines |-> lines, terminated |-> terminated]

StreamAnswers ==
    { Answer(200, TRUE, << ImageLine(1, <<"B">>), ImageLine(0, <<"A">>), ImageLine(2, <<"C">>) >>, TRUE),
      Answer(200, TRUE, << ImageLine(0, <<"A">>), ErrorLine(Chars("quota exceeded")) >>, TRUE),
      Answer(200, TRUE, << ImageLine(12, <<"A", "U+E9">>), RawLine(Chars("{bB}")) >>, FALSE),
      Answer(200, TRUE, << RawLine(<<"x">>) >>, TRUE),
      Answer(200, FALSE, <<>>, TRUE) }

ImageAnswers == { Answer(200, TRUE, <<>>, TRUE) }

ErrorAnswers ==
    { Answer(500, TRUE, << RawLine(Chars("bad")) >>, FALSE),
      Answer(500, TRUE, <<>>, TRUE) }

AnswersTo(endpoint) ==
    ErrorAnswers \cup (IF endpoint = "/hairstyle" THEN ImageAnswers ELSE StreamAnswers)

FileChanged == \E file \in Files \cup {"none"} : handleFileChange(file)

CountChanged == \E n \in CountInputs : setCount(n)

PromptTyped == \E v \in AppTexts : handlePromptChange(v)

AnswerArrives ==
    \E i \in DOMAIN reqs :
        /\ reqs[i].pc = "fetch"
        /\ \E a \in AnswersTo(reqs[i].endpoint) :
              FetchResponds(i, a.status, a.hasBody, a.lines, a.terminated,
                            Body(a.lines, a.terminated))

ErrorTextRead == \E i \in DOMAIN reqs : TextResolves(i)

ChunkRead ==
    \E i \in DOMAIN reqs :
        /\ reqs[i].pc = "read"
        /\ \E n \in ChunkSizes(Len(reqs[i].wire)) : ReadChunk(i, n)

StreamEndRead == \E i \in DOMAIN reqs : ReadDone(i)

ConnectionBreaks == \E i \in DOMAIN reqs : BodyFails(i)

Next ==
    \/ FileChanged
    \/ handleClearImage
    \/ ClearBoard
    \/ CountChanged
    \/ PromptTyped
    \/ SubmitButton
    \/ ServiceUnreachable
    \/ AnswerArrives
    \/ ErrorTextRead
    \/ BlobRead
    \/ ChunkRead
    \/ StreamEndRead
    \/ ConnectionBreaks

Spec == InitApp /\ [][Next]_vars

\* The promises of a dispatched request settle: the fetch rejects or resolves,
\* and the reading of the body fails or goes on to its end.
Settles ==
    \/ ServiceUnreachable
    \/ ConnectionBreaks
    \/ AnswerArrives
    \/ ErrorTextRead
    \/ BlobRead
    \/ StreamEndRead
    \/ ChunkRead

SpecSettling == Spec /\ WF_vars(Settles)

---------------------------------------------------------------------------
(* Properties of the decoder (SpecDecoder). *)

\* What the read loop and the flush do when the whole body arrives as one chunk.
WholeBody(body) ==
    LET step == chunkStep(<<>>, decodeChunk(<<>>, body).text,
                          LoopState(<<>>, "info", Literal("Contacting the service..."), <<>>))
    IN  IF step.acc.thrown THEN step.acc ELSE flushStep(step.bufferedText, step.acc)

ValidRecord(l) == l.kind = "image" /\ l.text # <<>>
BlankLine(l) == l.kind = "raw" /\ Trim(l.text) = <<>>

AllValid(lines) == \A k \in 1..Len(lines) : ValidRecord(lines[k])
DistinctIndices(lines) ==
    \A j, k \in 1..Len(lines) : j # k => lines[j].index # lines[k].index

\* The items the records stand for, in line order.
ExpectedItems(lines) ==
    [k \in 1..Len(lines) |-> Item(lines[k].index, DataUrl(lines[k].text))]

Count(s, c) == Cardinality({k \in 1..Len(s) : s[k] = c})

\* C1: a body of N newline-terminated valid records with distinct indices, cut
\* into chunks in any way, leaves exactly the N items of the records, in line
\* order, which is also what the body does when it arrives as one chunk.
C1_ChunkingDoesNotMatter ==
    \A i \in DOMAIN reqs :
        (reqs[i].pc = "done" /\ reqs[i].terminated
            /\ AllValid(reqs[i].lines) /\ DistinctIndices(reqs[i].lines))
        => /\ results = ExpectedItems(reqs[i].lines)
           /\ results = WholeBody(Body(reqs[i].lines, TRUE)).results
           /\ reqs[i].outcome = "success"

\* Three records have been decoded from a body of which some chunk ended inside
\* a line.
C1_Witness ==
    \E i \in DOMAIN reqs :
        /\ reqs[i].pc = "done" /\ reqs[i].terminated /\ reqs[i].heldFragment
        /\ Len(reqs[i].lines) = 3
        /\ AllValid(reqs[i].lines) /\ DistinctIndices(reqs[i].lines)
        /\ results = ExpectedItems(reqs[i].lines)

\* C2: when line k is an error record and the k-1 lines before it are valid image
\* records, the request ends in error with exactly the k-1 items of those lines.
C2_ErrorRecordStopsDecoding ==
    \A i \in DOMAIN reqs : \A k \in 1..Len(reqs[i].lines) :
        (reqs[i].pc = "done" /\ reqs[i].lines[k].kind = "error"
            /\ AllValid(SubSeq(reqs[i].lines, 1, k - 1)))
        => /\ results = ExpectedItems(SubSeq(reqs[i].lines, 1, k - 1))
           /\ reqs[i].outcome = "error"

\* The body without its blank lines.
StrippedBody(lines, terminated) ==
    Body(SelectSeq(lines, LAMBDA l : ~BlankLine(l)),
         terminated \/ (lines # <<>> /\ BlankLine(Last(lines))))

HasBlank(lines) == \E k \in 1..Len(lines) : BlankLine(lines[k])

\* C3: a body with blank or white-space-only lines ends as the body without them
\* does: the same items, and an error exactly when that one ends in error.
C3_BlankLinesAreSkipped ==
    \A i \in DOMAIN reqs :
        (reqs[i].pc = "done" /\ HasBlank(reqs[i].lines))
        => LET w == WholeBody(StrippedBody(reqs[i].lines, reqs[i].terminated))
           IN  /\ results = w.results
               /\ (reqs[i].outcome = "error") = w.thrown
               /\ (w.thrown => statusMessage = w.statusMessage)

\* A blank first line, a record, and a white-space-only fragment at the end of
\* the stream: one item, no error.
C3_Witness ==
    \E i \in DOMAIN reqs :
        /\ reqs[i].pc = "done" /\ reqs[i].outcome = "success"
        /\ reqs[i].lines = << RawLine(<<>>), ImageLine(1, <<"B">>), RawLine(<<" ">>) >>
        /\ ~reqs[i].terminated
        /\ Len(results) = 1

\* Newlines of the body that have been read.
NewlinesRead(r) == Count(Body(r.lines, r.terminated), "\n") - Count(r.wire, "\n")

\* C4: a non-blank fragment left at the end of the stream is processed as one
\* more line, once, as if a newline had followed it; and before the end of the
\* stream no more lines have been processed than newlines have been read.
C4_FinalFragment ==
    \A i \in DOMAIN reqs :
        /\ (reqs[i].pc = "done" /\ ~reqs[i].terminated /\ ~BlankLine(Last(reqs[i].lines)))
           => LET w == WholeBody(Body(reqs[i].lines, TRUE))
              IN  /\ results = w.results
                  /\ (reqs[i].outcome = "error") = w.thrown
                  /\ reqs[i].eos =>
                        reqs[i].processed =
                            [k \in 1..Len(reqs[i].lines) |-> LineText(reqs[i].lines[k])]
        /\ Len(reqs[i].processed) <= NewlinesRead(reqs[i]) + (IF reqs[i].eos THEN 1 ELSE 0)

\* A body whose last record has no newline after it has given the items of all
\* its records.
C4_Witness ==
    \E i \in DOMAIN reqs :
        /\ reqs[i].pc = "done" /\ reqs[i].eos /\ ~reqs[i].terminated
        /\ Len(reqs[i].lines) = 2 /\ AllValid(reqs[i].lines)
        /\ reqs[i].heldFragment
        /\ results = ExpectedItems(reqs[i].lines)

---------------------------------------------------------------------------
(* Properties of the displayed order (Spec). *)

IsAscending(items) ==
    \A j \in 1..(Len(items) - 1) : items[j].index <= items[j + 1].index

IsPermutation(a, b) ==
    /\ Len(a) = Len(b)
    /\ \A x \in {a[j] : j \in 1..Len(a)} \cup {b[j] : j \in 1..Len(b)} :
          Count(a, x) = Count(b, x)

\* C5: the displayed sequence holds the items of results, each as often as
\* results does, in ascending order of index.
C5_DisplayIsSortedPermutation ==
    /\ IsAscending(orderedResults)
    /\ IsPermutation(orderedResults, results)

\* Index 12 arrived before the record without index: the display shows the
\* item of index -1 first.
C5_Witness ==
    /\ Len(results) = 2
    /\ results[1].index = 12 /\ results[2].index = -1
    /\ orderedResults = << results[2], results[1] >>

---------------------------------------------------------------------------
(* Properties of the prompt (SpecSuffix, SpecPrompt). *)

\* C6: normalising a normalised text changes nothing.
C6_NormalisationIsIdempotent ==
    Len(fnTrace) = 3 => fnTrace[3] = fnTrace[2]

\* A padded text that already ends with the suffix has been normalised twice.
C6_Witness ==
    /\ Len(fnTrace) = 3
    /\ fnTrace[1] = <<" ", "a">> \o FACE_SUFFIX \o <<" ">>
    /\ fnTrace[2] = <<"a">> \o FACE_SUFFIX

\* C7: the prompt is empty or ends with the suffix, and the prompt of every
\* request is not empty and ends with the suffix.
C7_PromptEndsWithSuffix ==
    /\ prompt = <<>> \/ EndsWith(prompt, FACE_SUFFIX)
    /\ \A i \in DOMAIN reqs :
          reqs[i].prompt # <<>> /\ EndsWith(reqs[i].prompt, FACE_SUFFIX)

\* A request carries a prompt the user typed a character behind.
C7_Witness ==
    \E i \in DOMAIN reqs :
        /\ reqs[i].prompt = Chars("bob cut keep my face samex keep my face same")
        /\ prompt = reqs[i].prompt

\* C8: the clause of the suffix occurs exactly once in every prompt that is not
\* empty and in the prompt of every request.
C8_ClauseOccursOnce ==
    /\ prompt # <<>> => Occurrences(prompt, FaceClause) = 1
    /\ \A i \in DOMAIN reqs : Occurrences(reqs[i].prompt, FaceClause) = 1

---------------------------------------------------------------------------
(* Properties of the submission (Spec). *)

\* What a blocked submit leaves: no new request, isLoading and results as they
\* were, and a warning.
BlockedEffect ==
    /\ reqs' = reqs
    /\ isLoading' = isLoading
    /\ results' = results
    /\ statusKind' = "warning"
    /\ statusMessage' # <<>>

\* C9: in every state without an image or with a blank prompt, handleSubmit can
\* only dispatch nothing, leave isLoading and results alone and set a warning.
C9_BlockedSubmit ==
    (imageFile = "none" \/ Trim(prompt) = <<>>)
    => /\ ENABLED handleSubmit
       /\ ~ENABLED (handleSubmit /\ ~BlockedEffect)
       /\ ~isLoading => ~ENABLED (handleSubmit /\ isLoading')

\* The form has been submitted with an image and an empty prompt.
C9_Witness ==
    /\ imageFile # "none" /\ prompt = <<>>
    /\ statusKind = "warning" /\ statusMessage = Literal("Please fill the prompt field.")
    /\ ~isLoading /\ reqs = <<>>

\* A step that dispatches a request: a request awaiting its fetch is new.
Dispatches ==
    /\ reqs' # reqs
    /\ reqs' # <<>>
    /\ Last(reqs').pc = "fetch"

NewlyDispatched == Cardinality({i \in DOMAIN reqs' : reqs'[i].pc = "fetch"})
                   - Cardinality({i \in DOMAIN reqs : reqs[i].pc = "fetch"})

\* C10: a submission with count 1 dispatches one request, to /hairstyle; and
\* when the image of such a request has been read, results is that one item,
\* of index 0.
C10_SingleRequest ==
    [][ /\ (Dispatches /\ count = 1) =>
              /\ NewlyDispatched = 1
              /\ Last(reqs').endpoint = "/hairstyle"
              /\ \A i \in DOMAIN reqs' :
                    reqs'[i].endpoint = "/hairstyles/stream" => ~Running(reqs'[i])
        /\ \A i \in DOMAIN reqs :
              (i \in DOMAIN reqs' /\ reqs[i].pc = "blob" /\ reqs'[i].outcome = "success")
              => results' = << Item(0, ObjectUrl(i)) >>
      ]_vars

\* The image of a request with count 1 has been read.
C10_Witness ==
    \E i \in DOMAIN reqs :
        /\ reqs[i].endpoint = "/hairstyle" /\ reqs[i].count = "1"
        /\ reqs[i].outcome = "success"
        /\ results = << Item(0, ObjectUrl(i)) >>

---------------------------------------------------------------------------
(* Properties of the transport (Spec). *)

\* C11: every request dispatched to /hairstyles/stream is dispatched with a count
\* above 1, and a request is dispatched to /hairstyle exactly when count is 1.
C11_TransportByCount ==
    [][ Dispatches =>
           /\ Last(reqs').endpoint \in {"/hairstyle", "/hairstyles/stream"}
           /\ Last(reqs').endpoint = "/hairstyles/stream" => count > 1
           /\ Last(reqs').endpoint = "/hairstyle" <=> count = 1
           /\ Last(reqs').count = ToString(count)
      ]_vars

\* A request for six variations is on its way to the streaming endpoint.
C11_Witness ==
    \E i \in DOMAIN reqs :
        /\ reqs[i].pc = "fetch" /\ reqs[i].endpoint = "/hairstyles/stream"
        /\ reqs[i].count = "6" /\ count = 6

\* The text of a body as the service wrote it.
RECURSIVE BodyText(_, _)
BodyText(lines, terminated) ==
    IF lines = <<>> THEN <<>>
    ELSE LineText(Head(lines))
         \o (IF Len(lines) > 1 \/ terminated THEN <<"\n">> ELSE <<>>)
         \o BodyText(Tail(lines), terminated)

NonOk(r) == r.status # 0 /\ ~(r.status \in 200..299)

\* C12: a request answered with a status outside 200..299 hands no line to the
\* decoder and appends no item; when its body text has been read the status is
\* an error whose message is that text, or 'Request failed with status <status>'
\* for an empty text, and no request is dispatched in its place.
C12_NonOkFailsBeforeDecoding ==
    /\ [](\A i \in DOMAIN reqs :
            NonOk(reqs[i]) =>
                /\ reqs[i].pc \in {"text", "done"}
                /\ reqs[i].processed = <<>>
                /\ results = <<>>
                /\ reqs[i].pc = "done" => reqs[i].outcome = "error")
    /\ [][ \A i \in DOMAIN reqs :
             TextResolves(i) =>
                /\ NonOk(reqs[i])
                /\ statusKind' = "error"
                /\ statusMessage' =
                      (IF BodyText(reqs[i].lines, reqs[i].terminated) # <<>>
                       THEN BodyText(reqs[i].lines, reqs[i].terminated)
                       ELSE Literal("Request failed with status " \o ToString(reqs[i].status)))
                /\ results' = results
                /\ ~isLoading'
                /\ DOMAIN reqs' = DOMAIN reqs
                /\ \A j \in DOMAIN reqs' : reqs'[j].pc = "done"
         ]_vars

\* The streaming endpoint has answered 500 with an empty body.
C12_Witness ==
    \E i \in DOMAIN reqs :
        /\ reqs[i].endpoint = "/hairstyles/stream" /\ reqs[i].status = 500
        /\ reqs[i].pc = "done" /\ reqs[i].outcome = "error"
        /\ statusKind = "error"
        /\ statusMessage = Literal("Request failed with status 500")
        /\ results = <<>> /\ ~isLoading

---------------------------------------------------------------------------
(* Properties of the submission's life (Spec). *)

InFlight == {i \in DOMAIN reqs : Running(reqs[i])}

\* C13: at most one request is in flight, isLoading is true exactly while one
\* is, and a request is dispatched only when none is in flight.
C13_OneRequestInFlight ==
    /\ [](Cardinality(InFlight) <= 1 /\ (isLoading <=> InFlight # {}))
    /\ [][Dispatches => InFlight = {} /\ ~isLoading /\ Cardinality(InFlight') = 1]_vars

\* A stream is being read, the form is otherwise ready to be submitted again,
\* and the button is disabled.
C13_Witness ==
    \E i \in DOMAIN reqs :
        /\ reqs[i].pc = "read" /\ Len(reqs[i].processed) >= 1
        /\ imageFile # "none" /\ Trim(prompt) # <<>> /\ count \in 1..MAX_STREAM_COUNT
        /\ submitDisabled

IsPrefix(a, b) == Len(a) <= Len(b) /\ SubSeq(b, 1, Len(a)) = a

QuotaBody == << ImageLine(0, <<"A">>), ErrorLine(Chars("quota exceeded")) >>

\* C14: the step in which a stream fails leaves the items appended so far in
\* place and sets an error status; for the body of one record of index 0 and the
\* error record 'quota exceeded' it leaves that one item and this message.
C14_FailureKeepsItems ==
    [][ \A i \in DOMAIN reqs \cap DOMAIN reqs' :
          (reqs[i].pc = "read" /\ reqs'[i].pc = "done" /\ reqs'[i].outcome = "error")
          => /\ IsPrefix(results, results')
             /\ statusKind' = "error"
             /\ ~isLoading'
             /\ (reqs[i].lines = QuotaBody /\ Len(reqs'[i].processed) = 2)
                => /\ statusMessage' = Chars("quota exceeded")
                   /\ results' = results \o (IF reqs[i].processed = <<>>
                                             THEN << Item(0, DataUrl(<<"A">>)) >>
                                             ELSE <<>>)
                   /\ (results = <<>> <=> reqs[i].processed = <<>>)
                      => results' = << Item(0, DataUrl(<<"A">>)) >>
      ]_vars

\* The record arrived in one chunk and the error record in a later one: one
\* item, and the message of the error record.
C14_Witness ==
    \E i \in DOMAIN reqs :
        /\ reqs[i].lines = QuotaBody /\ reqs[i].heldFragment
        /\ reqs[i].pc = "done" /\ reqs[i].outcome = "error"
        /\ results = << Item(0, DataUrl(<<"A">>)) >>
        /\ statusKind = "error" /\ statusMessage = Chars("quota exceeded")
        /\ ~isLoading

---------------------------------------------------------------------------
(* Properties of the camera (SpecCamera). *)

\* After the step the ref is null and the stream it held has no running track.
Released == streamRef' = 0 /\ (streamRef # 0 => streamRef \notin liveTracks')

\* C15: choosing a file, the capture of a photo, a call of startCamera and the
\* teardown of the component each leave streamRef null and the tracks of the
\* stream it held stopped.
C15_CameraReleased ==
    [][ ((\E file \in Files : handleFileChange(file))
            \/ toBlobDelivers \/ startCamera \/ Unmount)
        => Released ]_vars

\* A photo has been captured from a stream that was opened: the ref is null and
\* no track runs.
C15_Witness ==
    /\ imageFile = "camera-capture.png"
    /\ streamsOpened = 1 /\ cameraCalls = 0 /\ captures = 0
    /\ streamRef = 0 /\ liveTracks = {} /\ ~isCameraActive

---------------------------------------------------------------------------
(* Properties of termination (SpecSettling). *)

\* A state in which a submission has ended.
Terminal ==
    /\ ~isLoading
    /\ statusKind \in {"success", "error"}
    /\ InFlight = {}
    /\ \E i \in DOMAIN reqs :
          /\ reqs[i].outcome \in {"success", "error"}
          /\ statusKind = (IF reqs[i].outcome = "error" THEN "error" ELSE "success")

\* C16: a submission that was dispatched reaches a state in which isLoading is
\* false, no invocation of handleSubmit is running, and the status is success,
\* or error when a failure was caught.
C16_SubmissionTerminates == isLoading ~> Terminal

\* A malformed line has ended a submission.
C16_Witness ==
    \E i \in DOMAIN reqs :
        /\ reqs[i].pc = "done" /\ reqs[i].outcome = "error"
        /\ reqs[i].processed = << <<"x">> >>
        /\ statusKind = "error" /\ statusMessage = Literal("SyntaxError")
        /\ ~isLoading

---------------------------------------------------------------------------
(* Properties of the decoding of one record (SpecRecords). *)

NumberTexts == { <<"0">>, <<"1">>, <<"1", "2">> }

\* The index the item of a record is to have: the number the index is, and -1
\* for every other index.
IndexOrSentinel(indexText) ==
    CASE indexText = <<"0">> -> 0
      [] indexText = <<"1">> -> 1
      [] indexText = <<"1", "2">> -> 12
      [] OTHER -> -1

\* C17: the item of a record with an image has the record's index when that is
\* a number, and -1 when the record has no index or one that is no number.
C17_IndexOrSentinel ==
    \A i \in DOMAIN reqs :
        reqs[i].pc = "done" =>
            /\ \A t \in IndexTexts :
                  reqs[i].lines = <<IndexedLine(t)>>
                  => results = << Item(IndexOrSentinel(t), DataUrl(<<"A">>)) >>
            /\ reqs[i].lines = <<UnindexedLine>>
                  => results = << Item(-1, DataUrl(<<"A">>)) >>

NoImageLine(l) == l.kind = "raw" /\ l.text \in NoImageTexts
NotJsonLine(l) == l.kind = "raw" /\ l.text \in NotJsonTexts

ItemsOf(lines) == ExpectedItems(SelectSeq(lines, ValidRecord))

TextsOf(lines) == [k \in 1..Len(lines) |-> LineText(lines[k])]

\* C18: a body of image records and of lines that are JSON with neither an error
\* nor an image_base64 field ends in success, every line processed, with the
\* items of its image records and nothing for the other lines.
C18_LineWithoutImageIsSkipped ==
    \A i \in DOMAIN reqs :
        (/\ reqs[i].pc = "done"
         /\ \E k \in 1..Len(reqs[i].lines) : NoImageLine(reqs[i].lines[k])
         /\ \A k \in 1..Len(reqs[i].lines) :
               ValidRecord(reqs[i].lines[k]) \/ NoImageLine(reqs[i].lines[k]))
        => /\ reqs[i].outcome = "success"
           /\ results = ItemsOf(reqs[i].lines)
           /\ reqs[i].processed = TextsOf(reqs[i].lines)

\* A line that is JSON, has no image and does not make processLine throw.
SkippedLine(l) == NoImageLine(l) /\ l.text # <<"N">>

\* C19: when line k is not JSON and no line before it fails, the request ends in
\* error with the items of the lines before k, line k is the last line handed to
\* processLine, and a request that has ended takes no further step.
C19_MalformedLineTerminates ==
    /\ [](\A i \in DOMAIN reqs : \A k \in 1..Len(reqs[i].lines) :
            (/\ reqs[i].pc = "done"
             /\ NotJsonLine(reqs[i].lines[k])
             /\ \A j \in 1..(k - 1) :
                   ValidRecord(reqs[i].lines[j]) \/ SkippedLine(reqs[i].lines[j]))
            => /\ reqs[i].outcome = "error"
               /\ statusKind = "error"
               /\ statusMessage = Literal("SyntaxError")
               /\ ~isLoading
               /\ results = ItemsOf(SubSeq(reqs[i].lines, 1, k - 1))
               /\ reqs[i].processed = TextsOf(SubSeq(reqs[i].lines, 1, k)))
    /\ [][\A i \in DOMAIN reqs : reqs[i].pc # "done"]_vars

\* A malformed line between two records, read in several chunks: the item of
\* the first record, an error, and the rest of the body unread.
C19_Witness ==
    \E i \in DOMAIN reqs :
        /\ reqs[i].lines = << ImageLine(0, <<"A">>), RawLine(<<"x">>), ImageLine(1, <<"B">>) >>
        /\ reqs[i].pc = "done" /\ reqs[i].outcome = "error"
        /\ reqs[i].heldFragment /\ reqs[i].wire # <<>>
        /\ results = << Item(0, DataUrl(<<"A">>)) >>
        /\ statusKind = "error"

---------------------------------------------------------------------------
(* Properties of the read loop between two chunks (SpecDecoder). *)

\* C20: while the stream is being read, the lines handed to processLine are the
\* lines completed by the chunks read so far, in line order, and results holds
\* the items of the image records among them, in line order.
C20_ItemsAppearAsLinesComplete ==
    \A i \in DOMAIN reqs :
        reqs[i].pc = "read" =>
            LET complete == SubSeq(reqs[i].lines, 1, NewlinesRead(reqs[i]))
            IN  /\ reqs[i].processed = TextsOf(complete)
                /\ results = ItemsOf(complete)

\* Two of three records are complete and their items are in results, while the
\* third has arrived in part and the rest of the body has not been read.
C20_Witness ==
    \E i \in DOMAIN reqs :
        /\ reqs[i].pc = "read" /\ reqs[i].wire # <<>> /\ reqs[i].bufferedText # <<>>
        /\ Len(reqs[i].lines) = 3 /\ AllValid(reqs[i].lines)
        /\ results = ExpectedItems(SubSeq(reqs[i].lines, 1, 2))

---------------------------------------------------------------------------
(* Properties of the count a request carries (Spec). *)

\* The count fields a request may carry: the integers 1..MAX_STREAM_COUNT, as
\* String(count) writes them.
CountFields == {ToString(k) : k \in 1..MAX_STREAM_COUNT}

\* C21: every request that is dispatched carries a count that is an integer in
\* 1..6, whatever the Variations input has put into the count state (0 for the
\* emptied field, a negative number, a number above 6): every request there is
\* carries such a count, and a step that dispatches one does so from a count
\* state in 1..6 and writes that count into the request.
C21_DispatchedCountInRange ==
    /\ [](\A i \in DOMAIN reqs : reqs[i].count \in CountFields)
    /\ [][ Dispatches =>
              /\ count \in 1..MAX_STREAM_COUNT
              /\ Last(reqs').count = ToString(count)
              /\ Last(reqs').count \in CountFields
         ]_vars

\* The count state holds 0 (the emptied field), the button is enabled and the
\* portrait and prompt pass handleSubmit's checks, a request with count 6 has
\* been dispatched before, and no submission is possible.
C21_Witness ==
    /\ count = 0 /\ ~submitDisabled /\ ~submitBlocked
    /\ \E i \in DOMAIN reqs : reqs[i].count = "6"
    /\ ~ENABLED SubmitButton

---------------------------------------------------------------------------
(* Properties of the held-back buffer (SpecDecoder). *)

\* The bytes of the body that the chunks read so far have delivered.
BytesRead(r) ==
    LET body == Body(r.lines, r.terminated)
    IN  SubSeq(body, 1, Len(body) - Len(r.wire))

\* The text received so far: the characters the bytes read so far make up; an
\* incomplete character at their end has not been received yet.
TextReceived(r) == Utf8Decode(<<>>, BytesRead(r)).text

\* The text behind the last newline of t, all of t when it has none.
AfterLastNewline(t) ==
    LET at == {k \in 1..Len(t) : t[k] = "\n"}
        last == IF at = {} THEN 0 ELSE CHOOSE k \in at : \A j \in at : j <= k
    IN  SubSeq(t, last + 1, Len(t))

\* The lines, each followed by a newline.
RECURSIVE EachWithNewline(_)
EachWithNewline(texts) ==
    IF texts = <<>> THEN <<>>
    ELSE Head(texts) \o <<"\n">> \o EachWithNewline(Tail(texts))

\* C22: while the stream is read, after each chunk the held-back buffer has no
\* newline in it and is the text received behind the last newline; the lines
\* handed to processLine, each followed by a newline, and then the buffer, are
\* the text of all the chunks received so far.
C22_BufferInvariant ==
    \A i \in DOMAIN reqs :
        reqs[i].pc = "read" =>
            /\ \A k \in DOMAIN reqs[i].bufferedText : reqs[i].bufferedText[k] # "\n"
            /\ reqs[i].bufferedText = AfterLastNewline(TextReceived(reqs[i]))
            /\ EachWithNewline(reqs[i].processed) \o reqs[i].bufferedText
                   = TextReceived(reqs[i])

\* Two lines have been processed and the chunk read last ended inside the
\* two-byte character of the third, which the buffer holds up to that character.
C22_Witness ==
    \E i \in DOMAIN reqs :
        /\ reqs[i].pc = "read"
        /\ Len(reqs[i].processed) = 2
        /\ reqs[i].pending = <<"C3">>
        /\ reqs[i].bufferedText = Chars("{i12,bA")
        /\ reqs[i].wire # <<>>

---------------------------------------------------------------------------
(* Properties of the camera under pending calls (SpecCamera). *)

\* The ref holds a media stream whose tracks have not been stopped.
HoldsLiveStream == streamRef # 0 /\ streamRef \in liveTracks

\* C23: whenever isCameraActive is false and no call of startCamera is pending
\* (none awaits its getUserMedia), the component holds no media stream with
\* unstopped tracks, however the pending getUserMedia interleaves with
\* handleFileChange, stopCamera and the teardown of the component.
C23_NoLiveStreamWhileInactive ==
    (~isCameraActive /\ cameraCalls = 0) => ~HoldsLiveStream

---------------------------------------------------------------------------
(* Properties of a reset while a request is in flight (Spec). *)

\* A step of one of the resets: choosing or removing the image, Clear board.
ResetStep == FileChanged \/ handleClearImage \/ ClearBoard

\* A request is in flight and a reset has run since it was dispatched, with
\* nothing appended since: handleSubmit writes the status "info" when it
\* dispatches, every append writes "success", and resetInterface is the only
\* writer of "idle".
ResetSinceDispatch == isLoading /\ InFlight # {} /\ statusKind = "idle"

\* The step appends to results.
Appends == Len(results') > Len(results)

\* C24: a reset empties results, and nothing of a request dispatched before the
\* reset is appended after it: while the request that was in flight at the
\* reset is still the one in flight, no step appends an item.
C24_NothingAppendedAfterReset ==
    /\ [][ResetStep => results' = <<>>]_vars
    /\ [][ResetSinceDispatch => ~Appends]_vars

=============================================================================
